---- MODULE Spec2Model ----
(***************************************************************************)
(* Model of combined_model/neuraltalk2_pytorch/dataloader.py:              *)
(* the DataLoader (split registry, caption index, batch assembler) and     *)
(* the per-split BlobFetcher (prefetcher).                                 *)
(*                                                                         *)
(* Python lists and numpy arrays are 0-based; they are modelled as TLA+    *)
(* sequences, so element i of a Python list l is l[i + 1] here.            *)
(* random.shuffle and random.randint are nondeterministic choices over     *)
(* all the outcomes they can produce.                                      *)
(***************************************************************************)
EXTENDS Integers, Sequences, FiniteSets, TLC

\* ------------------------------------------------------------------ bounds
NumImages == 3
MaxNcap == 2
MaxBatch == 3
MaxSeqPerImg == 2
MaxSeqLength == 2
VocabSize == 2
MaxContrastive == 2

Splits == {"train", "val", "test"}
SplitLabels == {"train", "val", "test", "restval"}
Images == 0 .. (NumImages - 1)

VARIABLES
  info_images,      \* info['images'][ix]['split'], the label of every image
  train_only,       \* opt.train_only
  allow_shuffle,    \* DataLoader.allow_shuffle
  contrastive,      \* DataLoader.contrastive
  max_contrastive,  \* opt.max_contrastive
  data_1p,          \* the similarity files, one per split
  contrastive_images, \* DataLoader.contrastive_images
  seq_length,       \* DataLoader.seq_length
  label_start_ix,   \* DataLoader.label_start_ix (1-based, inclusive)
  label_end_ix,     \* DataLoader.label_end_ix   (1-based, inclusive)
  labels,           \* h5_label_file['labels'], the caption table
  split_ix,         \* DataLoader.split_ix
  iterators,        \* DataLoader.iterators
  prefetch_process, \* DataLoader._prefetch_process
  epoch_log,        \* history: the calls on a split since its cursor was 0
  ret               \* what the last call returned or raised

vars == <<info_images, train_only, allow_shuffle, contrastive,
          max_contrastive, data_1p, contrastive_images, seq_length,
          label_start_ix, label_end_ix, labels, split_ix, iterators,
          prefetch_process, epoch_log, ret>>

data_vars == <<info_images, train_only, allow_shuffle, contrastive,
               max_contrastive, data_1p, contrastive_images, seq_length,
               label_start_ix, label_end_ix, labels>>

\* ----------------------------------------------------------------- helpers
Min(a, b) == IF a <= b THEN a ELSE b

\* l[i] of a 0-based Python list.
At(l, i) == l[i + 1]

\* l[p:] of a Python list.
SliceFrom(l, p) == SubSeq(l, p + 1, Len(l))

\* l[a:b] of a Python list, 0 <= a.
Slice(l, a, b) == SubSeq(l, a + 1, Min(b, Len(l)))

RECURSIVE SumTo(_, _)
SumTo(f, n) == IF n = 0 THEN 0 ELSE f[n] + SumTo(f, n - 1)

\* np.zeros([rows, cols])
Zeros(rows, cols) == [r \in 1 .. rows |-> [c \in 1 .. cols |-> 0]]

\* The elements of a sequence, as a bag (value |-> number of occurrences).
Count(l, x) == Cardinality({i \in 1 .. Len(l) : l[i] = x})

\* ------------------------------------------------- DataLoader.__init__
\* A fold-in that ignores train_only.
SplitOfAlwaysFold(label, t_only) ==
  IF label = "train" THEN "train"
  ELSE IF label = "val" THEN "val"
  ELSE IF label = "test" THEN "test"
  ELSE "train"

\* Lines 94-101: the split an image with this label is appended to.
SplitOf(label, t_only) ==
  IF label = "train" THEN "train"
  ELSE IF label = "val" THEN "val"
  ELSE IF label = "test" THEN "test"
  ELSE IF t_only = 0 THEN "train"
  ELSE "none"

\* Lines 91-101: the indexes of every split, in the order of info['images'].
RECURSIVE SplitIndexes(_, _, _, _)
SplitIndexes(images, t_only, split, n) ==
  IF n = 0 THEN <<>>
  ELSE LET ix == n - 1
           rest == SplitIndexes(images, t_only, split, n - 1)
       IN IF SplitOf(At(images, ix), t_only) = split
          THEN Append(rest, ix) ELSE rest

InitSplitIx(images, t_only) ==
  [split \in Splits |-> SplitIndexes(images, t_only, split, Len(images))]

\* A candidate list that is one entry longer than the cap.
contrastive_list_one_more(ranked, cap) == Slice(ranked, 0, cap + 1)

\* Line 122: contrastive_indices[i][0:max_contrastive]
contrastive_list(ranked, cap) == Slice(ranked, 0, cap)

\* Lines 115-118: the cap used for the file of a split.
ContrastiveCap(files, max_c, split) ==
  IF max_c = 0 THEN files[split].num_1p ELSE max_c

\* Lines 119-122: the (key, list) assignments made for the file of a split,
\* in the order they are made.
ContrastiveEntries(files, max_c, split) ==
  [i \in 1 .. Len(files[split].all_indices) |->
     [key |-> files[split].all_indices[i],
      list |-> contrastive_list(files[split].sorted_image_indices[i],
                                ContrastiveCap(files, max_c, split))]]

\* Lines 112-125: the files are read in the order train, val, test and a
\* later assignment to a key replaces an earlier one.
LoadContrastive(files, max_c) ==
  LET entries == ContrastiveEntries(files, max_c, "train")
                   \o ContrastiveEntries(files, max_c, "val")
                   \o ContrastiveEntries(files, max_c, "test")
      keys == {entries[i].key : i \in 1 .. Len(entries)}
      last(key) == CHOOSE i \in 1 .. Len(entries) :
                     /\ entries[i].key = key
                     /\ \A k \in (i + 1) .. Len(entries) :
                          entries[k].key # key
  IN [key \in keys |-> entries[last(key)].list]

\* BlobFetcher.__init__: no split_loader attribute yet.  split_loader is the
\* sequence of the indexes primed and not yet handed over; done holds the
\* positions in it that a worker has finished loading; load_failed is
\* history: a load of this fetcher's pool has raised.
BlobFetcher(split, if_shuffle) ==
  [split |-> split, if_shuffle |-> if_shuffle,
   has_split_loader |-> FALSE, split_loader |-> <<>>, done |-> {},
   load_failed |-> FALSE]

InitPrefetch(shuffle) ==
  [split \in Splits |-> BlobFetcher(split, shuffle /\ split = "train")]

\* DataLoader.get_split_size
get_split_size(ixs, split) == Len(ixs[split])

\* ------------------------------------------------------------ BlobFetcher
\* The mutable part of the loader that the fetchers work on is passed around
\* as a record st = [split_ix, iterators, prefetch_process].

\* __getitem__ through get_npy_data or get_npy_data_contrastive: every
\* outcome, (fc, att, ix) or (fc, att, ix, ix_contrastive) or the exception
\* raised.  random.randint(0, len - 1) picks any position of the list.
getitem(index) ==
  IF ~contrastive THEN
    {[status |-> "ok", fc |-> index, att |-> index, ix |-> index,
      ix_contrastive |-> -1]}
  ELSE IF index \notin DOMAIN contrastive_images THEN
    {[status |-> "KeyError", fc |-> -1, att |-> -1, ix |-> -1,
      ix_contrastive |-> -1]}
  ELSE IF Len(contrastive_images[index]) = 0 THEN
    {[status |-> "ValueError", fc |-> -1, att |-> -1, ix |-> -1,
      ix_contrastive |-> -1]}
  ELSE
    {[status |-> "ok", fc |-> index, att |-> index, ix |-> index,
      ix_contrastive |-> At(contrastive_images[index], pos)] :
       pos \in 0 .. (Len(contrastive_images[index]) - 1)}

\* reset() whose sampler is the whole order of the split.
reset_from_zero(st, split) ==
  [st EXCEPT !.prefetch_process[split] =
     [@ EXCEPT !.has_split_loader = TRUE,
               !.split_loader = st.split_ix[split],
               !.done = {}, !.load_failed = FALSE]]

\* BlobFetcher.reset: a new split_loader over a copy of
\* split_ix[split][iterators[split]:], with nothing loaded yet.
reset(st, split) ==
  [st EXCEPT !.prefetch_process[split] =
     [@ EXCEPT !.has_split_loader = TRUE,
               !.split_loader = SliceFrom(st.split_ix[split],
                                          st.iterators[split]),
               !.done = {}, !.load_failed = FALSE]]

\* A shuffle that draws every position independently.
ShuffleWithReplacement(l) ==
  {[i \in 1 .. Len(l) |-> l[f[i]]] : f \in [1 .. Len(l) -> 1 .. Len(l)]}

\* random.shuffle: any rearrangement of the list.
Shuffle(l) ==
  {[i \in 1 .. Len(l) |-> l[p[i]]] : p \in Permutations(1 .. Len(l))}

\* _get_next_minibatch_inds wrapping one call late (ri_next > max_index).
get_next_minibatch_inds_late(st, split) ==
  LET max_index == Len(st.split_ix[split])
      ri == st.iterators[split]
      ix == At(st.split_ix[split], ri)
      ri_next == ri + 1
  IN IF ri_next > max_index THEN
       {[st |-> [st EXCEPT !.split_ix[split] = order,
                           !.iterators[split] = 0],
         ix |-> ix, wrapped |-> TRUE] :
          order \in IF st.prefetch_process[split].if_shuffle
                    THEN Shuffle(st.split_ix[split])
                    ELSE {st.split_ix[split]}}
     ELSE
       {[st |-> [st EXCEPT !.iterators[split] = ri_next],
         ix |-> ix, wrapped |-> FALSE]}

\* _get_next_minibatch_inds that wraps without setting wrapped.
get_next_minibatch_inds_noflag(st, split) ==
  LET max_index == Len(st.split_ix[split])
      ri == st.iterators[split]
      ix == At(st.split_ix[split], ri)
      ri_next == ri + 1
  IN IF ri_next >= max_index THEN
       {[st |-> [st EXCEPT !.split_ix[split] = order,
                           !.iterators[split] = 0],
         ix |-> ix, wrapped |-> FALSE] :
          order \in IF st.prefetch_process[split].if_shuffle
                    THEN Shuffle(st.split_ix[split])
                    ELSE {st.split_ix[split]}}
     ELSE
       {[st |-> [st EXCEPT !.iterators[split] = ri_next],
         ix |-> ix, wrapped |-> FALSE]}

\* _get_next_minibatch_inds that wraps one position early.
get_next_minibatch_inds_early(st, split) ==
  LET max_index == Len(st.split_ix[split])
      ri == st.iterators[split]
      ix == At(st.split_ix[split], ri)
      ri_next == ri + 1
  IN IF ri_next >= max_index - 1 THEN
       {[st |-> [st EXCEPT !.split_ix[split] = order,
                           !.iterators[split] = 0],
         ix |-> ix, wrapped |-> TRUE] :
          order \in IF st.prefetch_process[split].if_shuffle
                    THEN Shuffle(st.split_ix[split])
                    ELSE {st.split_ix[split]}}
     ELSE
       {[st |-> [st EXCEPT !.iterators[split] = ri_next],
         ix |-> ix, wrapped |-> FALSE]}

\* _get_next_minibatch_inds that reads ix after the reshuffle.
get_next_minibatch_inds_readlate(st, split) ==
  LET max_index == Len(st.split_ix[split])
      ri == st.iterators[split]
      ri_next == ri + 1
  IN IF ri_next >= max_index THEN
       {[st |-> [st EXCEPT !.split_ix[split] = order,
                           !.iterators[split] = 0],
         ix |-> At(order, ri), wrapped |-> TRUE] :
          order \in IF st.prefetch_process[split].if_shuffle
                    THEN Shuffle(st.split_ix[split])
                    ELSE {st.split_ix[split]}}
     ELSE
       {[st |-> [st EXCEPT !.iterators[split] = ri_next],
         ix |-> At(st.split_ix[split], ri), wrapped |-> FALSE]}

\* BlobFetcher._get_next_minibatch_inds, for iterators[split] < max_index.
get_next_minibatch_inds(st, split) ==
  LET max_index == Len(st.split_ix[split])
      ri == st.iterators[split]
      ix == At(st.split_ix[split], ri)
      ri_next == ri + 1
  IN IF ri_next >= max_index THEN
       {[st |-> [st EXCEPT !.split_ix[split] = order,
                           !.iterators[split] = 0],
         ix |-> ix, wrapped |-> TRUE] :
          order \in IF st.prefetch_process[split].if_shuffle
                    THEN Shuffle(st.split_ix[split])
                    ELSE {st.split_ix[split]}}
     ELSE
       {[st |-> [st EXCEPT !.iterators[split] = ri_next],
         ix |-> ix, wrapped |-> FALSE]}

NoTmp ==
  [status |-> "ok", fc |-> -1, att |-> -1, ix |-> -1, ix_contrastive |-> -1]

\* Lines 304-307 of get: prime the pool if there is none yet, then compute
\* the index and the wrap flag.  Every outcome [st, status, ix, wrapped].
get_begin(st, split) ==
  LET st1 == IF st.prefetch_process[split].has_split_loader
             THEN st ELSE reset(st, split)
  IN IF st1.iterators[split] >= Len(st1.split_ix[split]) THEN
       \* split_ix[split][ri] raises IndexError
       {[st |-> st1, status |-> "IndexError", ix |-> -1, wrapped |-> FALSE]}
     ELSE
       {[st |-> r.st, status |-> "ok", ix |-> r.ix, wrapped |-> r.wrapped] :
          r \in get_next_minibatch_inds(st1, split)}

\* A worker of the pool finishes loading the example at position j of
\* split_loader (num_workers = cpu_count() workers load ahead, in any order).
worker_loads(fetcher, j) == [fetcher EXCEPT !.done = @ \cup {j}]

\* A pool that hands over whichever loaded example it has.
split_loader_next_any(fetcher) ==
  IF fetcher.split_loader = <<>> THEN
    {[status |-> "StopIteration", index |-> -1, fetcher |-> fetcher]}
  ELSE
    {[status |-> "ok", index |-> fetcher.split_loader[j],
      fetcher |-> [fetcher EXCEPT
         !.split_loader = SubSeq(@, 1, j - 1) \o SubSeq(@, j + 1, Len(@)),
         !.done = {k \in fetcher.done : k < j}
                    \cup {k - 1 : k \in {d \in fetcher.done : d > j}}]] :
       j \in fetcher.done}

\* split_loader.next() (line 308): the iterator hands the examples over in
\* the order of its sampler.  One outcome when the pool is exhausted or the
\* first example is loaded; none while that example is still being loaded
\* (the caller blocks).
split_loader_next(fetcher) ==
  IF fetcher.split_loader = <<>> THEN
    {[status |-> "StopIteration", index |-> -1, fetcher |-> fetcher]}
  ELSE IF 1 \in fetcher.done THEN
    {[status |-> "ok", index |-> Head(fetcher.split_loader),
      fetcher |-> [fetcher EXCEPT
         !.split_loader = Tail(@),
         !.done = {k - 1 : k \in fetcher.done \ {1}}]]}
  ELSE {}

\* Lines 308-314 of get: pull the next example, re-prime after a wrap, then
\* compare the example's index with ix.  No outcome while the pull blocks.
\* discarded counts the examples still in the pool that reset() replaces.
\* The pulled example is what __getitem__ made of its index in a worker; an
\* exception raised there is raised again by next(), before line 309.
get_end(st, split, ix, wrapped) ==
  UNION {
    IF n.status # "ok" THEN
      {[st |-> st, status |-> n.status, tmp |-> NoTmp, ix |-> ix,
        wrapped |-> wrapped, discarded |-> 0]}
    ELSE
      {LET st2 == [st EXCEPT !.prefetch_process[split] = n.fetcher]
           st3 == IF wrapped THEN reset(st2, split) ELSE st2
       IN IF tmp.status # "ok" THEN
            [st |-> [st2 EXCEPT
                       !.prefetch_process[split].load_failed = TRUE],
             status |-> tmp.status, tmp |-> NoTmp, ix |-> ix,
             wrapped |-> wrapped, discarded |-> 0]
          ELSE
            [st |-> st3,
             status |-> IF tmp.ix = ix THEN "ok" ELSE "ix not equal",
             tmp |-> tmp, ix |-> ix, wrapped |-> wrapped,
             discarded |-> IF wrapped
                           THEN Len(n.fetcher.split_loader) ELSE 0]
       : tmp \in getitem(n.index)}
    : n \in split_loader_next(st.prefetch_process[split])}

\* The state when the load that a blocked pull waits for has finished.
await_load(st, split) ==
  LET fetcher == st.prefetch_process[split]
  IN IF fetcher.split_loader # <<>> /\ 1 \notin fetcher.done
     THEN [st EXCEPT !.prefetch_process[split] = worker_loads(fetcher, 1)]
     ELSE st

\* get() that keeps the old split_loader when it wraps.
get_noreprime(st, split) ==
  UNION {IF b.status # "ok" THEN
           {[st |-> b.st, status |-> b.status, tmp |-> NoTmp, ix |-> b.ix,
             wrapped |-> b.wrapped, discarded |-> 0]}
         ELSE
           {[e EXCEPT !.wrapped = b.wrapped] :
              e \in get_end(await_load(b.st, split), split, b.ix, FALSE)}
         : b \in get_begin(st, split)}

\* get() whose pool after a wrap is primed with the order the split had when
\* the call began.
get_stale_reprime(st, split) ==
  UNION {IF b.status # "ok" THEN
           {[st |-> b.st, status |-> b.status, tmp |-> NoTmp, ix |-> b.ix,
             wrapped |-> b.wrapped, discarded |-> 0]}
         ELSE
           {IF b.wrapped
            THEN [e EXCEPT !.st.prefetch_process[split].split_loader =
                              st.split_ix[split]]
            ELSE e
            : e \in get_end(await_load(b.st, split), split, b.ix,
                            b.wrapped)}
         : b \in get_begin(st, split)}

\* BlobFetcher.get as one step, waiting for the load included: the set of
\* its outcomes (state after, status, result).
get(st, split) ==
  UNION {IF b.status # "ok" THEN
           {[st |-> b.st, status |-> b.status, tmp |-> NoTmp, ix |-> b.ix,
             wrapped |-> b.wrapped, discarded |-> 0]}
         ELSE get_end(await_load(b.st, split), split, b.ix, b.wrapped)
         : b \in get_begin(st, split)}

\* reset_iterator that restarts the cursor of every split.
reset_iterator_all(st, shuffle, split) ==
  [st EXCEPT !.prefetch_process[split] =
                BlobFetcher(split, shuffle /\ split = "train"),
             !.iterators = [other \in Splits |-> 0]]

\* reset_iterator whose new fetcher shuffles whatever its split is.
reset_iterator_shuffling(st, shuffle, split) ==
  [st EXCEPT !.prefetch_process[split] = BlobFetcher(split, shuffle),
             !.iterators[split] = 0]

\* reset_iterator that leaves the cursor where it was.
reset_iterator_keep(st, shuffle, split) ==
  [st EXCEPT !.prefetch_process[split] =
                BlobFetcher(split, shuffle /\ split = "train")]

\* DataLoader.reset_iterator
reset_iterator(st, shuffle, split) ==
  [st EXCEPT !.prefetch_process[split] =
                BlobFetcher(split, shuffle /\ split = "train"),
             !.iterators[split] = 0]

\* ------------------------------------------------------ DataLoader batches
\* h5_label_file['labels'][ixl, :seq_length]
LabelRow(ixl) == SubSeq(At(labels, ixl), 1, seq_length)

\* Sampling that forgets where the image's range starts.
get_sequence_rows_any(ix, seq_per_img) ==
  LET ix2 == At(label_end_ix, ix) - 1
  IN {[q \in 1 .. seq_per_img |-> f[q]] :
        f \in [1 .. seq_per_img -> 0 .. ix2]}

\* Lines 145-153 of _get_sequence: the 0-based table rows it can pick
\* (random.randint is inclusive at both ends).
get_sequence_rows(ix, seq_per_img) ==
  LET ix1 == At(label_start_ix, ix) - 1
      ix2 == At(label_end_ix, ix) - 1
      ncap == ix2 - ix1 + 1
  IN IF ncap < seq_per_img THEN
       {[q \in 1 .. seq_per_img |-> f[q]] :
          f \in [1 .. seq_per_img -> ix1 .. ix2]}
     ELSE
       {[q \in 1 .. seq_per_img |-> ixl + q - 1] :
          ixl \in ix1 .. (ix2 - seq_per_img + 1)}

\* _get_sequence that pads an image without captions instead of asserting.
get_sequence_unchecked(ix, seq_per_img) ==
  LET ix1 == At(label_start_ix, ix) - 1
      ix2 == At(label_end_ix, ix) - 1
      ncap == ix2 - ix1 + 1
  IN IF ~(ncap > 0) THEN
       {[status |-> "ok", rows |-> <<>>,
         seq |-> Zeros(seq_per_img, seq_length)]}
     ELSE
       {[status |-> "ok", rows |-> rows,
         seq |-> [q \in 1 .. seq_per_img |-> LabelRow(rows[q])]] :
          rows \in get_sequence_rows(ix, seq_per_img)}

\* DataLoader._get_sequence: its assertion, then every (rows picked, matrix
\* returned) it can yield.
get_sequence(ix, seq_per_img) ==
  LET ix1 == At(label_start_ix, ix) - 1
      ix2 == At(label_end_ix, ix) - 1
      ncap == ix2 - ix1 + 1
  IN IF ~(ncap > 0) THEN
       {[status |-> "no label", rows |-> <<>>, seq |-> <<>>]}
     ELSE
       {[status |-> "ok", rows |-> rows,
         seq |-> [q \in 1 .. seq_per_img |-> LabelRow(rows[q])]] :
          rows \in get_sequence_rows(ix, seq_per_img)}

\* DataLoader._make_info_dict (id and file_path are fixed by ix).
make_info_dict(ix) == [ix |-> ix]

\* Line 194: tmp_label_batch[i*s : (i+1)*s, 1 : seq_length+1] = seq
PutSeq(tmp_label_batch, i, seq_per_img, seq) ==
  [r \in 1 .. Len(tmp_label_batch) |->
     IF r > i * seq_per_img /\ r <= (i + 1) * seq_per_img
     THEN [c \in 1 .. (seq_length + 2) |->
             IF c >= 2 /\ c <= seq_length + 1
             THEN seq[r - i * seq_per_img][c - 1]
             ELSE tmp_label_batch[r][c]]
     ELSE tmp_label_batch[r]]

\* Lines 212-214: label_batch gets rows 0 .. actual_batch_size-1 of
\* tmp_label_batch; its other rows stay zero.
CopyLabels(tmp_label_batch, actual_batch_size, seq_per_img) ==
  [r \in 1 .. (actual_batch_size * seq_per_img) |->
     IF r <= actual_batch_size
     THEN tmp_label_batch[r]
     ELSE [c \in 1 .. (seq_length + 2) |-> 0]]

\* A mask that covers one sentinel only.
NonzerosPlusOne(row) == Cardinality({c \in 1 .. Len(row) : row[c] # 0}) + 1

\* Line 216: (x != 0).sum() + 2
Nonzeros(row) == Cardinality({c \in 1 .. Len(row) : row[c] # 0}) + 2

\* Lines 215-218: row[:nonzeros[ix]] = 1 on a zero matrix.
MakeMask(label_batch) ==
  [r \in 1 .. Len(label_batch) |->
     [c \in 1 .. (seq_length + 2) |->
        IF c <= Nonzeros(label_batch[r]) THEN 1 ELSE 0]]

\* Line 197: labels[label_start_ix[ix] - 1 : label_end_ix[ix]]
GroundTruth(ix) ==
  Slice(labels, At(label_start_ix, ix) - 1, At(label_end_ix, ix))

\* The loop of get_batch (lines 180-207) from iteration i on; acc holds the
\* loop's variables.  Yields every way the loop can end.
RECURSIVE BatchLoop(_, _, _, _, _)
BatchLoop(acc, split, batch_size, seq_per_img, i) ==
  IF i >= batch_size THEN {[acc EXCEPT !.i = batch_size - 1]}
  ELSE UNION {
    IF g.status # "ok" THEN
      {[acc EXCEPT !.st = g.st, !.status = g.status, !.i = i]}
    ELSE UNION {
      IF s.status # "ok" THEN
        {[acc EXCEPT !.st = g.st, !.status = s.status, !.i = i]}
      ELSE
      LET acc1 == [acc EXCEPT
             !.st = g.st,
             !.i = i,
             !.fc_batch = @ \o [q \in 1 .. seq_per_img |-> g.tmp.fc],
             !.att_batch = @ \o [q \in 1 .. seq_per_img |-> g.tmp.att],
             !.tmp_label_batch = PutSeq(@, i, seq_per_img, s.seq),
             !.gts = Append(@, GroundTruth(g.tmp.ix)),
             !.infos = Append(@, make_info_dict(g.tmp.ix)),
             !.c_infos = IF contrastive
                         THEN Append(@, make_info_dict(g.tmp.ix_contrastive))
                         ELSE @,
             !.sampled = Append(@, [rows |-> s.rows, seq |-> s.seq])]
      IN IF g.wrapped THEN {[acc1 EXCEPT !.wrapped = TRUE]}
         ELSE BatchLoop(acc1, split, batch_size, seq_per_img, i + 1)
      : s \in get_sequence(g.tmp.ix, seq_per_img)}
    : g \in get(acc.st, split)}

NoData ==
  [fc_feats |-> <<>>, att_feats |-> <<>>, labels |-> <<>>, gts |-> <<>>,
   masks |-> <<>>, bounds |-> [it_pos_now |-> -1, it_max |-> -1,
                               wrapped |-> FALSE],
   infos |-> <<>>, c_infos |-> <<>>]

\* Bounds whose it_max is the last position instead of the size.
make_bounds_last(st, split, wrapped) ==
  [it_pos_now |-> st.iterators[split],
   it_max |-> Len(st.split_ix[split]) - 1,
   wrapped |-> wrapped]

\* Line 227: data['bounds'], read when the loop has ended.
make_bounds(st, split, wrapped) ==
  [it_pos_now |-> st.iterators[split],
   it_max |-> Len(st.split_ix[split]),
   wrapped |-> wrapped]

\* DataLoader.get_batch with batch_size and seq_per_img given: every outcome
\* [st, status, data, sampled]; sampled lists the table rows picked per example.
\* data has the key c_infos in contrastive mode only; it is empty otherwise.
get_batch(st, split, batch_size, seq_per_img) ==
  LET acc0 == [st |-> st, status |-> "ok", i |-> 0, wrapped |-> FALSE,
               fc_batch |-> <<>>, att_batch |-> <<>>,
               tmp_label_batch |->
                  Zeros(batch_size * seq_per_img, seq_length + 2),
               gts |-> <<>>, infos |-> <<>>, c_infos |-> <<>>,
               sampled |-> <<>>]
  IN {IF acc.status # "ok" THEN
        [st |-> acc.st, status |-> acc.status, data |-> NoData,
         sampled |-> <<>>]
      ELSE
        LET actual_batch_size == acc.i + 1
            label_batch == CopyLabels(acc.tmp_label_batch,
                                      actual_batch_size, seq_per_img)
        IN [st |-> acc.st, status |-> "ok",
            data |-> [fc_feats |-> acc.fc_batch,
                      att_feats |-> acc.att_batch,
                      labels |-> label_batch,
                      gts |-> acc.gts,
                      masks |-> MakeMask(label_batch),
                      bounds |-> make_bounds(acc.st, split, acc.wrapped),
                      infos |-> acc.infos,
                      c_infos |-> acc.c_infos],
            sampled |-> acc.sampled]
      : acc \in BatchLoop(acc0, split, batch_size, seq_per_img, 0)}

\* -------------------------------------------------------------- the data
\* A caption table as the preprocessing writes it: image ix owns ncap[ix]
\* consecutive rows, label_start_ix/label_end_ix are 1-based and inclusive,
\* and a row is its tokens followed by zero padding.
StartIx(ncaps) == [n \in 1 .. Len(ncaps) |-> 1 + SumTo(ncaps, n - 1)]
EndIx(ncaps) == [n \in 1 .. Len(ncaps) |-> SumTo(ncaps, n)]

TableRow(r, off, len) ==
  [j \in 1 .. len |->
     IF j <= (r + off) % (len + 1) THEN 1 + ((r + j) % VocabSize) ELSE 0]

Table(ncaps, off, len) ==
  [r \in 1 .. SumTo(ncaps, Len(ncaps)) |-> TableRow(r - 1, off, len)]

EmptyLog ==
  [split |-> "train", kind |-> "none", batch_size |-> 0, start |-> 0,
   ixs |-> <<>>, counts |-> <<>>, flags |-> <<>>]

MixedLog ==
  [split |-> "train", kind |-> "mixed", batch_size |-> 0, start |-> 0,
   ixs |-> <<>>, counts |-> <<>>, flags |-> <<>>]

\* The run of calls that began when a call found the cursor of its split at
\* 0 or its fetcher without a split_loader (fresh), as long as the calls
\* since are on that split, are all get() or all get_batch() of one batch
\* size, and none of them failed.  start is the cursor the run began at.
LogCall(log, split, it_before, fresh, kind, batch_size, ok, ixs, wrapped) ==
  LET begins == it_before = 0 \/ fresh
      base == IF begins THEN [EmptyLog EXCEPT !.start = it_before] ELSE log
  IN IF ~ok THEN MixedLog
     ELSE IF begins
             \/ (base.split = split /\ base.kind = kind
                 /\ base.batch_size = batch_size)
     THEN [split |-> split, kind |-> kind, batch_size |-> batch_size,
           start |-> base.start,
           ixs |-> base.ixs \o ixs,
           counts |-> Append(base.counts, Len(ixs)),
           flags |-> Append(base.flags, wrapped)]
     ELSE MixedLog

InitRet ==
  [op |-> "init", split |-> "train", batch_size |-> 0, seq_per_img |-> 0,
   status |-> "ok", it_before |-> 0, order_before |-> <<>>,
   fresh |-> FALSE, ix_contrastive |-> -1, discarded |-> 0, was_reset |-> FALSE, reset_from |-> -1, ix |-> -1, wrapped |-> FALSE, data |-> NoData,
   sampled |-> <<>>]

\* No similarity files: the loader is not contrastive.
NoFiles ==
  [split \in Splits |->
     [num_1p |-> 0, all_indices |-> <<>>, sorted_image_indices |-> <<>>]]

\* The loader right after DataLoader.__init__ over the given inputs, in
\* contrastive mode over the given similarity files.
ConstructedContrastive(images, t_only, shuffle, ncaps, off, len, max_c, files) ==
  /\ info_images = images
  /\ train_only = t_only
  /\ allow_shuffle = shuffle
  /\ contrastive = TRUE
  /\ max_contrastive = max_c
  /\ data_1p = files
  /\ contrastive_images = LoadContrastive(files, max_c)
  /\ seq_length = len
  /\ label_start_ix = StartIx(ncaps)
  /\ label_end_ix = EndIx(ncaps)
  /\ labels = Table(ncaps, off, len)
  /\ split_ix = InitSplitIx(images, t_only)
  /\ iterators = [split \in Splits |-> 0]
  /\ prefetch_process = InitPrefetch(shuffle)
  /\ epoch_log = EmptyLog
  /\ ret = InitRet

\* The loader right after DataLoader.__init__ over the given inputs, with
\* contrastive False: lines 110-125 are skipped and there is no map.
Constructed(images, t_only, shuffle, ncaps, off, len) ==
  /\ info_images = images
  /\ contrastive = FALSE
  /\ max_contrastive = 0
  /\ data_1p = NoFiles
  /\ contrastive_images = <<>>
  /\ train_only = t_only
  /\ allow_shuffle = shuffle
  /\ seq_length = len
  /\ label_start_ix = StartIx(ncaps)
  /\ label_end_ix = EndIx(ncaps)
  /\ labels = Table(ncaps, off, len)
  /\ split_ix = InitSplitIx(images, t_only)
  /\ iterators = [split \in Splits |-> 0]
  /\ prefetch_process = InitPrefetch(shuffle)
  /\ epoch_log = EmptyLog
  /\ ret = InitRet

State == [split_ix |-> split_ix, iterators |-> iterators,
          prefetch_process |-> prefetch_process]

SetState(st) ==
  /\ split_ix' = st.split_ix
  /\ iterators' = st.iterators
  /\ prefetch_process' = st.prefetch_process

\* ------------------------------------------------------------- the actions
\* A call of _prefetch_process[split].get().
Get(split) ==
  \E o \in get(State, split) :
    /\ SetState(o.st)
    /\ epoch_log' = LogCall(epoch_log, split, iterators[split],
                            ~prefetch_process[split].has_split_loader,
                            "get", 1, o.status = "ok", <<o.tmp.ix>>,
                            o.wrapped)
    /\ ret' = [InitRet EXCEPT
          !.op = "get", !.split = split, !.batch_size = 1,
          !.status = o.status, !.it_before = iterators[split],
          !.order_before = split_ix[split],
          !.fresh = ~prefetch_process[split].has_split_loader,
          !.was_reset = (ret.op = "reset_iterator" /\ ret.split = split),
          !.reset_from = IF ret.op = "reset_iterator" /\ ret.split = split
                         THEN ret.it_before ELSE -1,
          !.ix = o.tmp.ix, !.ix_contrastive = o.tmp.ix_contrastive,
          !.discarded = o.discarded, !.wrapped = o.wrapped]
    /\ UNCHANGED data_vars

\* A call of get_batch(split, batch_size, seq_per_img).
GetBatch(split, batch_size, seq_per_img) ==
  \E o \in get_batch(State, split, batch_size, seq_per_img) :
    /\ SetState(o.st)
    /\ epoch_log' = LogCall(epoch_log, split, iterators[split],
                            ~prefetch_process[split].has_split_loader,
                            "get_batch", batch_size, o.status = "ok",
                            [n \in 1 .. Len(o.data.infos) |->
                               o.data.infos[n].ix],
                            o.data.bounds.wrapped)
    /\ ret' = [InitRet EXCEPT
          !.op = "get_batch", !.split = split, !.batch_size = batch_size,
          !.seq_per_img = seq_per_img,
          !.status = o.status, !.it_before = iterators[split],
          !.order_before = split_ix[split],
          !.fresh = ~prefetch_process[split].has_split_loader,
          !.was_reset = (ret.op = "reset_iterator" /\ ret.split = split),
          !.reset_from = IF ret.op = "reset_iterator" /\ ret.split = split
                         THEN ret.it_before ELSE -1,
          !.wrapped = o.data.bounds.wrapped,
          !.data = o.data, !.sampled = o.sampled]
    /\ UNCHANGED data_vars

\* A call of reset_iterator(split).
ResetIterator(split) ==
  /\ SetState(reset_iterator(State, allow_shuffle, split))
  /\ epoch_log' = IF epoch_log.split = split THEN EmptyLog ELSE epoch_log
  /\ ret' = [InitRet EXCEPT
        !.op = "reset_iterator", !.split = split,
        !.it_before = iterators[split],
        !.order_before = split_ix[split]]
  /\ UNCHANGED data_vars

\* Resuming a run: the trainer assigns the saved cursors to loader.iterators
\* right after construction, before any fetcher has a split_loader (case 1
\* of the docstring of BlobFetcher.reset).
resume(st, saved) == [st EXCEPT !.iterators = saved]

SavedIterators ==
  {saved \in [Splits -> 0 .. (NumImages - 1)] :
     \A split \in Splits :
       saved[split] = 0 \/ saved[split] < Len(split_ix[split])}

Resume(saved) ==
  /\ ret.op = "init"
  /\ SetState(resume(State, saved))
  /\ epoch_log' = EmptyLog
  /\ ret' = [InitRet EXCEPT !.op = "resume"]
  /\ UNCHANGED data_vars

\* A worker of the pool of a split finishes a load.
WorkerLoads(split, j) ==
  /\ prefetch_process[split].has_split_loader
  /\ j \in 1 .. Len(prefetch_process[split].split_loader)
  /\ j \notin prefetch_process[split].done
  /\ prefetch_process' =
       [prefetch_process EXCEPT ![split] = worker_loads(@, j)]
  /\ UNCHANGED <<split_ix, iterators, epoch_log, ret>>
  /\ UNCHANGED data_vars

\* get() up to the pull (lines 304-307); an IndexError ends the call.
GetCall(split) ==
  /\ ret.op # "get_call"
  /\ \E b \in get_begin(State, split) :
       /\ SetState(b.st)
       /\ epoch_log' = IF b.status = "ok" THEN epoch_log ELSE MixedLog
       /\ ret' = [InitRet EXCEPT
             !.op = IF b.status = "ok" THEN "get_call" ELSE "get",
             !.split = split, !.batch_size = 1,
             !.status = b.status, !.it_before = iterators[split],
             !.order_before = split_ix[split],
             !.fresh = ~prefetch_process[split].has_split_loader,
             !.ix = b.ix, !.wrapped = b.wrapped]
  /\ UNCHANGED data_vars

\* get() from the pull on (lines 308-314), once the pull does not block.
GetReturn(split) ==
  /\ ret.op = "get_call"
  /\ ret.split = split
  /\ \E e \in get_end(State, split, ret.ix, ret.wrapped) :
       /\ SetState(e.st)
       /\ epoch_log' = LogCall(epoch_log, split, ret.it_before, ret.fresh,
                               "get", 1, e.status = "ok", <<e.tmp.ix>>,
                               e.wrapped)
       /\ ret' = [ret EXCEPT !.op = "get", !.status = e.status,
                             !.ix = e.tmp.ix,
                             !.ix_contrastive = e.tmp.ix_contrastive,
                             !.discarded = e.discarded]
  /\ UNCHANGED data_vars

\* A call of get_split_size(split).
GetSplitSize(split) ==
  /\ ret' = [InitRet EXCEPT
        !.op = "get_split_size", !.split = split,
        !.ix = get_split_size(split_ix, split)]
  /\ UNCHANGED <<split_ix, iterators, prefetch_process, epoch_log>>
  /\ UNCHANGED data_vars

\* ------------------------------------------------------ the specifications
AllImages == [1 .. NumImages -> SplitLabels]
AllNcaps == [1 .. NumImages -> 0 .. MaxNcap]

Rank(label) ==
  CASE label = "train" -> 0 [] label = "val" -> 1 [] label = "test" -> 2
    [] OTHER -> 3

\* One image list for every multiset of labels.
SortedImages ==
  {images \in AllImages :
     \A n \in 1 .. (NumImages - 1) : Rank(images[n]) <= Rank(images[n + 1])}

Next ==
  \/ \E split \in Splits : Get(split)
  \/ \E split \in Splits, batch_size \in 1 .. MaxBatch,
        seq_per_img \in 1 .. MaxSeqPerImg :
       GetBatch(split, batch_size, seq_per_img)
  \/ \E split \in Splits : ResetIterator(split)

\* Iteration: every mix of split sizes, with and without shuffling, over a
\* table of one one-token caption per image.
Init ==
  \E images \in SortedImages, t_only \in {0, 1}, shuffle \in BOOLEAN :
    Constructed(images, t_only, shuffle, [n \in 1 .. NumImages |-> 1], 0, 1)

Spec == Init /\ [][Next]_vars

\* Iteration of a resumed run.
NextResume ==
  \/ \E saved \in SavedIterators : Resume(saved)
  \/ Next

SpecResume == Init /\ [][NextResume]_vars

\* Iteration with the workers of the pools as processes of their own: the
\* caller is inside at most one get(), workers load at any time.
NextWorkers ==
  \/ \E split \in Splits : GetCall(split)
  \/ \E split \in Splits : GetReturn(split)
  \/ \E split \in Splits, j \in 1 .. NumImages : WorkerLoads(split, j)
  \/ \E split \in Splits : ret.op # "get_call" /\ ResetIterator(split)

SpecWorkers == Init /\ [][NextWorkers]_vars

\* The similarity files of a dataset: the file of a split lists the images
\* of the split, except the one left out (none when left_out is -1), each
\* with the other images ranked by similarity, and carries its own num_1p.
RankedOthers(ix) ==
  [n \in 1 .. (NumImages - 1) |-> (ix + n) % NumImages]

Without(l, x) == SelectSeq(l, LAMBDA y : y # x)

SimilarityFiles(images, t_only, left_out, num_train) ==
  [split \in Splits |->
     LET listed == Without(InitSplitIx(images, t_only)[split], left_out)
     IN [num_1p |-> IF split = "train" THEN num_train
                    ELSE MaxContrastive + 1 - num_train,
         all_indices |-> listed,
         sorted_image_indices |->
           [i \in 1 .. Len(listed) |-> RankedOthers(listed[i])]]]

ContrastiveImages ==
  {[n \in 1 .. NumImages |-> "train"],
   [n \in 1 .. NumImages |-> IF n = NumImages THEN "val" ELSE "train"]}

\* Contrastive mode: every cap, with and without an image missing from the
\* similarity files, over unshuffled splits and one caption per example.
InitContrastive ==
  \E images \in ContrastiveImages, max_c \in 0 .. MaxContrastive,
     left_out \in {-1} \cup Images, num_train \in 1 .. MaxContrastive :
    ConstructedContrastive(images, 0, FALSE,
                           [n \in 1 .. NumImages |-> 1], 0, 1, max_c,
                           SimilarityFiles(images, 0, left_out, num_train))

NextContrastive ==
  \/ \E split \in Splits : Get(split)
  \/ \E split \in Splits, batch_size \in 1 .. MaxBatch :
       GetBatch(split, batch_size, 1)
  \/ \E split \in Splits : ResetIterator(split)

SpecContrastive == InitContrastive /\ [][NextContrastive]_vars

\* Contrastive mode with the workers as processes of their own.
SpecPool == InitContrastive /\ [][NextWorkers]_vars

\* Batch assembly: every caption table over an unshuffled train split.
InitBatch ==
  \E ncaps \in AllNcaps, off \in 0 .. MaxSeqLength,
     len \in 1 .. MaxSeqLength :
    Constructed([n \in 1 .. NumImages |-> "train"], 0, FALSE, ncaps, off,
                len)

SpecBatch == InitBatch /\ [][Next]_vars

\* Loading: every list of image labels, with and without the fold-in.
InitLoad ==
  \E images \in AllImages, t_only \in {0, 1} :
    Constructed(images, t_only, FALSE, [n \in 1 .. NumImages |-> 1], 0, 1)

NextLoad == \E split \in Splits : GetSplitSize(split)

SpecLoad == InitLoad /\ [][NextLoad]_vars

\* ---------------------------------------------------------------- claims
InitialOrder(split) == InitSplitIx(info_images, train_only)[split]

SetOf(l) == {l[n] : n \in 1 .. Len(l)}

NoDuplicates(l) ==
  \A a \in 1 .. Len(l), b \in 1 .. Len(l) : a # b => l[a] # l[b]

\* C1: on a split that is not shuffled, the get() calls made since the
\* cursor was 0 have returned the split's order from its start, one index per
\* call; the wrap flag was True on the N-th call and on no call before it,
\* and after the N-th call the cursor is 0 again.
C1_GetEpoch ==
  (epoch_log.kind = "get"
   /\ ~prefetch_process[epoch_log.split].if_shuffle)
  => LET order == split_ix[epoch_log.split]
         N == Len(order)
         n == Len(epoch_log.ixs)
     IN /\ n <= N
        /\ epoch_log.ixs = SubSeq(order, 1, n)
        /\ NoDuplicates(epoch_log.ixs)
        /\ \A j \in 1 .. n : epoch_log.flags[j] = (j = N)
        /\ (n = N => iterators[epoch_log.split] = 0)
        /\ (n < N => iterators[epoch_log.split] = n)

C1_Witness ==
  /\ epoch_log.kind = "get"
  /\ ~allow_shuffle
  /\ Len(epoch_log.ixs) = NumImages
  /\ epoch_log.flags[NumImages]
  /\ iterators[epoch_log.split] = 0

\* C2: a get_batch on a non-empty split whose images all have captions ends
\* normally whether or not it wraps; called at cursor p with batch size B it
\* returns k = min(B, N - p) examples, the indices at positions p .. p+k-1 of
\* the order the split had before the call, each replicated seq_per_img times
\* in the features, and bounds.wrapped is True exactly when p + B >= N.
C2_BatchWindow ==
  (ret.op = "get_batch" /\ Len(ret.order_before) >= 1)
  => LET p == ret.it_before
         N == Len(ret.order_before)
         B == ret.batch_size
         k == Min(B, N - p)
     IN /\ ret.status = "ok"
        /\ Len(ret.data.infos) = k
        /\ \A j \in 1 .. k : ret.data.infos[j].ix = ret.order_before[p + j]
        /\ Len(ret.data.fc_feats) = k * ret.seq_per_img
        /\ \A j \in 1 .. k, q \in 1 .. ret.seq_per_img :
             ret.data.fc_feats[(j - 1) * ret.seq_per_img + q]
               = ret.order_before[p + j]
        /\ ret.data.bounds.wrapped = (p + B >= N)

C2_Witness ==
  /\ ret.op = "get_batch"
  /\ ret.status = "ok"
  /\ ret.it_before = 1
  /\ ret.batch_size = 3
  /\ Len(ret.order_before) = 3
  /\ Len(ret.data.infos) = 2
  /\ ret.data.bounds.wrapped
  /\ split_ix[ret.split] # ret.order_before

\* C3: the get_batch calls of one batch size B made since the cursor was 0
\* are at most ceil(N / B); call j returns min(B, N - (j-1)B) images, no image
\* is returned twice, wrapped is True on call ceil(N / B) and False before,
\* and after that call every image of the split has been returned.
C3_BatchEpoch ==
  (epoch_log.kind = "get_batch")
  => LET order == split_ix[epoch_log.split]
         N == Len(order)
         B == epoch_log.batch_size
         n == Len(epoch_log.counts)
         need == (N + B - 1) \div B
     IN /\ n <= need
        /\ \A j \in 1 .. n :
             /\ epoch_log.counts[j] = Min(B, N - (j - 1) * B)
             /\ epoch_log.flags[j] = (j = need)
        /\ NoDuplicates(epoch_log.ixs)
        /\ SetOf(epoch_log.ixs) \subseteq SetOf(order)
        /\ (n = need => /\ SetOf(epoch_log.ixs) = SetOf(order)
                        /\ Len(epoch_log.ixs) = N)

C3_Witness ==
  /\ epoch_log.kind = "get_batch"
  /\ epoch_log.split = "train"
  /\ allow_shuffle
  /\ epoch_log.batch_size = 2
  /\ epoch_log.counts = <<2, 1>>
  /\ epoch_log.flags = <<FALSE, TRUE>>
  /\ Len(split_ix["train"]) = 3

\* C4: a get_batch that directly follows reset_iterator on its split starts
\* at position 0 of the split's current order, wherever the cursor was
\* before the reset: its examples are order[0], order[1], ...
C4_ResetRestarts ==
  (ret.op = "get_batch" /\ ret.was_reset /\ Len(ret.order_before) >= 1)
  => /\ ret.status = "ok"
     /\ Len(ret.data.infos)
          = Min(ret.batch_size, Len(ret.order_before))
     /\ \A j \in 1 .. Len(ret.data.infos) :
          ret.data.infos[j].ix = ret.order_before[j]

C4_Witness ==
  /\ ret.op = "get_batch"
  /\ ret.was_reset
  /\ ret.reset_from = 2
  /\ ret.status = "ok"
  /\ Len(ret.data.infos) = 2
  /\ ret.order_before # InitialOrder(ret.split)

\* C7: in every state the order of each split holds every index exactly as
\* often as the order the split was given at load.
C7_SameMultiset ==
  \A split \in Splits : \A ix \in Images :
    Count(split_ix[split], ix) = Count(InitialOrder(split), ix)

C7_Witness ==
  /\ allow_shuffle
  /\ ret.split = "train"
  /\ ret.wrapped
  /\ Len(split_ix["train"]) = NumImages
  /\ split_ix["train"] # ret.order_before

\* ncap = end - start + 1 of an image.
NcapOf(ix) == At(label_end_ix, ix) - At(label_start_ix, ix) + 1

NonzeroCount(row) == Cardinality({c \in 1 .. Len(row) : row[c] # 0})

\* C5: in every returned batch, label row i*s + q holds the q-th caption
\* sampled for example i in columns 1 .. seq_length, and 0 in column 0 and in
\* column seq_length+1, for every example i and every q < seq_per_img.
C5_LabelRows ==
  (ret.op = "get_batch" /\ ret.status = "ok")
  => \A i \in 0 .. (Len(ret.data.infos) - 1),
        q \in 0 .. (ret.seq_per_img - 1) :
       LET row == At(ret.data.labels, i * ret.seq_per_img + q)
           caption == At(At(ret.sampled, i).seq, q)
       IN /\ At(row, 0) = 0
          /\ At(row, seq_length + 1) = 0
          /\ \A c \in 1 .. seq_length : At(row, c) = At(caption, c - 1)

\* C6: in every returned batch of k examples the label and the mask matrix
\* have k * seq_per_img rows of seq_length + 2 columns, and the ones of mask
\* row i are exactly its first (nonzero entries of label row i) + 2 columns.
C6_MaskRows ==
  (ret.op = "get_batch" /\ ret.status = "ok")
  => LET rows == Len(ret.data.infos) * ret.seq_per_img
     IN /\ Len(ret.data.labels) = rows
        /\ Len(ret.data.masks) = rows
        /\ \A r \in 1 .. rows :
             /\ Len(ret.data.labels[r]) = seq_length + 2
             /\ Len(ret.data.masks[r]) = seq_length + 2
             /\ \A c \in 1 .. (seq_length + 2) :
                  ret.data.masks[r][c] =
                    IF c <= NonzeroCount(ret.data.labels[r]) + 2
                    THEN 1 ELSE 0

C6_Witness ==
  /\ ret.op = "get_batch"
  /\ ret.status = "ok"
  /\ seq_length = 2
  /\ \A n \in {0, 1, seq_length} :
       \E r \in 1 .. Len(ret.data.labels) :
         /\ NonzeroCount(ret.data.labels[r]) = n
         /\ NonzeroCount(ret.data.masks[r]) = n + 2

\* C8 as stated: every image known to the loader has ncap >= 1, so no
\* get_batch call returns from a loader that holds an image with ncap < 1.
C8_NoCaptionlessLoader ==
  (ret.op = "get_batch" /\ ret.status = "ok")
  => \A ix \in Images : NcapOf(ix) >= 1

\* C8 amended: a get_batch on a non-empty split raises the assertion of
\* _get_sequence and returns no batch when one of the images it fetches has
\* ncap < 1, and otherwise returns a batch, so every image of a returned
\* batch has ncap >= 1.
C8_CaptionlessDetectedAtFetch ==
  (ret.op = "get_batch" /\ Len(ret.order_before) >= 1)
  => LET p == ret.it_before
         k == Min(ret.batch_size, Len(ret.order_before) - p)
         bad == \E j \in 1 .. k : NcapOf(ret.order_before[p + j]) < 1
     IN /\ bad => (ret.status = "no label" /\ ret.data = NoData)
        /\ ~bad => /\ ret.status = "ok"
                   /\ Len(ret.data.infos) = k
                   /\ \A j \in 1 .. k : NcapOf(ret.data.infos[j].ix) >= 1

C8_Witness ==
  /\ ret.op = "get_batch"
  /\ ret.status = "no label"
  /\ ret.batch_size = 2
  /\ NcapOf(ret.order_before[ret.it_before + 1]) >= 1
  /\ NcapOf(ret.order_before[ret.it_before + 2]) = 0

\* C9: for every example of a returned batch, _get_sequence returned
\* seq_per_img rows of width seq_length, each one a table row inside the
\* image's own range start-1 .. end-1; when ncap >= seq_per_img the rows are
\* consecutive table rows.
C9_Sequence ==
  (ret.op = "get_batch" /\ ret.status = "ok")
  => \A j \in 1 .. Len(ret.data.infos) :
       LET ix == ret.data.infos[j].ix
           lo == At(label_start_ix, ix) - 1
           hi == At(label_end_ix, ix) - 1
           got == ret.sampled[j]
       IN /\ Len(got.seq) = ret.seq_per_img
          /\ Len(got.rows) = ret.seq_per_img
          /\ \A q \in 1 .. ret.seq_per_img :
               /\ Len(got.seq[q]) = seq_length
               /\ got.rows[q] >= lo
               /\ got.rows[q] <= hi
               /\ got.seq[q] = At(labels, got.rows[q])
          /\ (NcapOf(ix) >= ret.seq_per_img
              => \A q \in 1 .. (ret.seq_per_img - 1) :
                   got.rows[q + 1] = got.rows[q] + 1)

C9_Witness ==
  /\ ret.op = "get_batch"
  /\ ret.status = "ok"
  /\ ret.seq_per_img = 2
  /\ \E j \in 1 .. Len(ret.data.infos) :
       /\ NcapOf(ret.data.infos[j].ix) = 1
       /\ ret.sampled[j].rows[1] = ret.sampled[j].rows[2]
  /\ \E j \in 1 .. Len(ret.data.infos) :
       /\ NcapOf(ret.data.infos[j].ix) = 2
       /\ ret.sampled[j].rows[2] = ret.sampled[j].rows[1] + 1

NumLabelled(label) ==
  Cardinality({ix \in Images : At(info_images, ix) = label})

\* C10: every image labelled train, val or test is in the split of that
\* name once and in no other; an image with another label is in train once
\* when train_only is 0 and in no split otherwise; so the split sizes sum to
\* the number of images with the fold-in and to the number of images
\* labelled train, val or test without it.
C10_SplitPlacement ==
  /\ \A ix \in Images, split \in Splits :
       Count(split_ix[split], ix) =
         IF At(info_images, ix) \in Splits
         THEN (IF At(info_images, ix) = split THEN 1 ELSE 0)
         ELSE (IF split = "train" /\ train_only = 0 THEN 1 ELSE 0)
  /\ get_split_size(split_ix, "train") + get_split_size(split_ix, "val")
       + get_split_size(split_ix, "test")
     = IF train_only = 0 THEN NumImages
       ELSE NumLabelled("train") + NumLabelled("val") + NumLabelled("test")
  /\ ret.op = "get_split_size"
     => ret.ix = NumLabelled(ret.split)
                 + (IF ret.split = "train" /\ train_only = 0
                    THEN NumLabelled("restval") ELSE 0)

C10_Witness ==
  /\ ret.op = "get_split_size"
  /\ ret.split = "train"
  /\ train_only = 0
  /\ NumLabelled("train") = 1
  /\ NumLabelled("restval") = 1
  /\ NumLabelled("val") = 1
  /\ ret.ix = 2

\* C11: no call ends with the assertion "ix not equal": every get() that
\* pulls an example gets the one whose index _get_next_minibatch_inds
\* computed, the element of the split's order under the cursor, also when the
\* call wraps, follows a reshuffle or follows a reset_iterator.
C11_IxAssertionHolds ==
  /\ ret.status # "ix not equal"
  /\ (ret.op = "get" /\ ret.status = "ok")
     => ret.ix = At(ret.order_before, ret.it_before)
  /\ (ret.op = "get_batch" /\ ret.status = "ok")
     => \A j \in 1 .. Len(ret.data.infos) :
          ret.data.infos[j].ix = At(ret.order_before, ret.it_before + j - 1)

C11_Witness ==
  /\ ret.op = "get_batch"
  /\ ret.status = "ok"
  /\ ret.split = "train"
  /\ allow_shuffle
  /\ ret.was_reset
  /\ ret.reset_from = 1
  /\ ret.order_before # InitialOrder("train")
  /\ ret.wrapped
  /\ split_ix["train"] # ret.order_before
  /\ Len(ret.data.infos) = NumImages

\* C12: a get() that wraps on a shuffled split returns the last element of
\* the order the split had before the call, and when it returns the cursor is
\* 0 and the pool holds the whole reshuffled order from position 0; the get()
\* calls made since the cursor was 0 have returned the order the split had
\* during them from its start, each index once, so the N calls after a wrap
\* return exactly the reshuffled order.
C12_ShuffleWrap ==
  /\ (ret.op = "get" /\ prefetch_process[ret.split].if_shuffle
      /\ ret.it_before = Len(ret.order_before) - 1)
     => /\ ret.status = "ok"
        /\ ret.wrapped
        /\ ret.ix = ret.order_before[Len(ret.order_before)]
        /\ iterators[ret.split] = 0
        /\ prefetch_process[ret.split].has_split_loader
        /\ prefetch_process[ret.split].split_loader = split_ix[ret.split]
  /\ (epoch_log.kind = "get"
      /\ prefetch_process[epoch_log.split].if_shuffle)
     => LET order == split_ix[epoch_log.split]
            N == Len(order)
            n == Len(epoch_log.ixs)
        IN /\ n <= N
           /\ NoDuplicates(epoch_log.ixs)
           /\ n < N => epoch_log.ixs = SubSeq(order, 1, n)
           /\ (n = N /\ ret.op = "get")
              => /\ ret.split = epoch_log.split
                 /\ epoch_log.ixs = ret.order_before

C12_Witness ==
  /\ ret.op = "get"
  /\ ret.split = "train"
  /\ allow_shuffle
  /\ ret.wrapped
  /\ epoch_log.kind = "get"
  /\ Len(epoch_log.ixs) = NumImages
  /\ epoch_log.ixs # InitialOrder("train")
  /\ split_ix["train"] # epoch_log.ixs
  /\ prefetch_process["train"].split_loader = split_ix["train"]

\* The state part of C13.
C13_LazyPrimingState ==
  /\ ret.op \in {"init", "resume"}
     => \A split \in Splits : ~prefetch_process[split].has_split_loader
  /\ ret.op = "reset_iterator"
     => ~prefetch_process[ret.split].has_split_loader
  /\ (ret.op = "get" /\ ret.fresh /\ Len(ret.order_before) >= 1)
     => LET c == ret.it_before
            N == Len(ret.order_before)
        IN /\ ret.status = "ok"
           /\ ret.ix = At(ret.order_before, c)
           /\ ret.wrapped = (c = N - 1)
           /\ prefetch_process[ret.split].has_split_loader
           /\ ~ret.wrapped
              => prefetch_process[ret.split].split_loader
                   = SliceFrom(ret.order_before, c + 1)
  /\ epoch_log.kind = "get"
     => LET order == split_ix[epoch_log.split]
            N == Len(order)
            c == epoch_log.start
            n == Len(epoch_log.ixs)
        IN /\ n <= N - c
           /\ n < N - c => epoch_log.ixs = SubSeq(order, c + 1, c + n)
           /\ (n = N - c /\ ret.op = "get")
              => epoch_log.ixs = SubSeq(ret.order_before, c + 1, N)
           /\ \A j \in 1 .. n : epoch_log.flags[j] = (c + j = N)

\* C13: a fetcher has no pool after construction and after reset_iterator,
\* and gets one only in a get() on its split; the first get() after that
\* primes the pool with the split's order from the cursor c it finds, so the
\* get() calls from then on return order[c], order[c+1], ... one per call,
\* N - c of them up to the wrap, with the wrap flag True on call N - c only.
C13_LazyPriming ==
  /\ []C13_LazyPrimingState
  /\ [][\A split \in Splits :
          (~prefetch_process[split].has_split_loader
           /\ prefetch_process'[split].has_split_loader)
          => (ret'.op \in {"get", "get_batch"} /\ ret'.split = split)]_vars

C13_Witness ==
  /\ ret.op = "get"
  /\ ret.status = "ok"
  /\ ret.wrapped
  /\ Len(ret.order_before) = NumImages
  /\ epoch_log.kind = "get"
  /\ epoch_log.start = 1
  /\ epoch_log.ixs = SubSeq(ret.order_before, 2, NumImages)
  /\ epoch_log.flags = <<FALSE, TRUE>>

\* The state part of C14.
C14_InOrderState ==
  /\ (ret.op = "get" /\ Len(ret.order_before) >= 1)
     => /\ ret.status = "ok"
        /\ ret.ix = At(ret.order_before, ret.it_before)
  /\ (epoch_log.kind = "get" /\ ret.op # "get_call")
     => LET order == split_ix[epoch_log.split]
            N == Len(order)
            c == epoch_log.start
            n == Len(epoch_log.ixs)
        IN /\ n <= N - c
           /\ n < N - c => epoch_log.ixs = SubSeq(order, c + 1, c + n)

\* C14: whatever the order in which the workers finish their loads, and
\* however far ahead of the caller they are, a get() returns only when the
\* next example in the order of the sampler is loaded, and returns that one:
\* the index under the cursor when the call began; the get() calls since the
\* pool was primed have returned a run of consecutive elements of the order.
C14_InOrderDelivery ==
  /\ []C14_InOrderState
  /\ [][(ret.op = "get_call" /\ ret'.op = "get")
        => 1 \in prefetch_process[ret.split].done]_vars

C14_Witness ==
  /\ ret.op = "get"
  /\ ret.status = "ok"
  /\ ret.it_before = 0
  /\ ret.ix = ret.order_before[1]
  /\ Len(prefetch_process[ret.split].split_loader) = 2
  /\ prefetch_process[ret.split].done = {2}

\* The state part of C15.
C15_OwnSplitOnly ==
  /\ (ret.op = "get" /\ ret.status = "ok")
     => ret.ix = At(ret.order_before, ret.it_before)
  /\ (ret.op = "get_batch" /\ ret.status = "ok")
     => /\ Len(ret.data.infos)
             = Min(ret.batch_size, Len(ret.order_before) - ret.it_before)
        /\ \A j \in 1 .. Len(ret.data.infos) :
             ret.data.infos[j].ix = ret.order_before[ret.it_before + j]

C16_LoadOrderKept ==
  /\ split_ix["val"] = InitialOrder("val")
  /\ split_ix["test"] = InitialOrder("test")
  /\ ~allow_shuffle => split_ix["train"] = InitialOrder("train")

\* C16: the order of a split changes only in a step that is a wrapping get()
\* or get_batch() on train of a loader with allow_shuffle true; val and test,
\* and train when allow_shuffle is false, always have the order they were
\* given at load, also after a reset_iterator.
C16_OrderChangesOnlyOnShuffledWrap ==
  /\ []C16_LoadOrderKept
  /\ [][\A split \in Splits :
          split_ix'[split] # split_ix[split]
          => /\ split = "train"
             /\ allow_shuffle
             /\ ret'.op \in {"get", "get_batch"}
             /\ ret'.split = "train"
             /\ ret'.wrapped
             /\ iterators'["train"] = 0]_vars

C16_Witness ==
  /\ allow_shuffle
  /\ ret.op = "get_batch"
  /\ ret.split = "val"
  /\ ret.was_reset
  /\ ret.reset_from = 1
  /\ ret.wrapped
  /\ Len(ret.data.infos) = 2
  /\ split_ix["val"] = InitialOrder("val")

\* C17: the cursor of every non-empty split is at least 0 and less than the
\* size of the split in every state, and a get() on such a split at cursor c
\* leaves the cursor at c + 1 when c + 1 is less than the size and at 0
\* otherwise.
C17_CursorInRange ==
  /\ \A split \in Splits :
       /\ iterators[split] >= 0
       /\ Len(split_ix[split]) >= 1
          => iterators[split] < Len(split_ix[split])
  /\ (ret.op = "get" /\ Len(ret.order_before) >= 1)
     => iterators[ret.split] =
          IF ret.it_before + 1 < Len(ret.order_before)
          THEN ret.it_before + 1 ELSE 0

C17_Witness ==
  /\ ret.op = "get"
  /\ ret.status = "ok"
  /\ Len(ret.order_before) = 2
  /\ ret.it_before = 1
  /\ iterators[ret.split] = 0
  /\ \E other \in Splits \ {ret.split} : iterators[other] = 0
                                         /\ Len(split_ix[other]) = 1

\* C18: the bounds of a returned batch describe the split after the batch:
\* with cursor p before the call, k examples returned and split size N,
\* it_pos_now is the cursor after the call and equals (p + k) mod N, it_max
\* is N, wrapped is True exactly when this call reached the end of the order
\* (p + batch_size >= N), and wrapped is True exactly when it_pos_now is 0.
C18_Bounds ==
  (ret.op = "get_batch" /\ ret.status = "ok")
  => LET p == ret.it_before
         N == Len(ret.order_before)
         k == Len(ret.data.infos)
         bounds == ret.data.bounds
     IN /\ bounds.it_pos_now = iterators[ret.split]
        /\ bounds.it_pos_now = (p + k) % N
        /\ bounds.it_max = N
        /\ bounds.it_max = Len(split_ix[ret.split])
        /\ bounds.wrapped = (p + ret.batch_size >= N)
        /\ bounds.wrapped = (bounds.it_pos_now = 0)

C18_Witness ==
  /\ ret.op = "get_batch"
  /\ ret.status = "ok"
  /\ ret.split = "train"
  /\ ret.order_before # InitialOrder("train")
  /\ ret.it_before = 0
  /\ ~ret.was_reset
  /\ ret.batch_size = 2
  /\ ret.data.bounds = [it_pos_now |-> 2, it_max |-> 3, wrapped |-> FALSE]

\* The similarity data of an image as the files give it.
HasEntry(ix) ==
  \E split \in Splits :
    \E i \in 1 .. Len(data_1p[split].all_indices) :
      data_1p[split].all_indices[i] = ix

FileOf(ix) ==
  CHOOSE split \in Splits :
    \E i \in 1 .. Len(data_1p[split].all_indices) :
      data_1p[split].all_indices[i] = ix

RankedList(ix) ==
  LET file == data_1p[FileOf(ix)]
      i == CHOOSE i \in 1 .. Len(file.all_indices) : file.all_indices[i] = ix
  IN file.sorted_image_indices[i]

CandidateList(ix) ==
  LET K == IF max_contrastive = 0 THEN data_1p[FileOf(ix)].num_1p
           ELSE max_contrastive
  IN SubSeq(RankedList(ix), 1, Min(K, Len(RankedList(ix))))

\* C19: in contrastive mode an example returned for image ix carries a
\* contrastive index from the first K entries of the ranked list of ix, K
\* being max_contrastive or, when that is 0, the num_1p of the file; a
\* returned batch has one c_infos record per infos record, record j made
\* from the contrastive index of example j; and a call that requests an image
\* without an entry ends in KeyError and returns no example and no batch.
C19_Contrastive ==
  contrastive =>
  /\ (ret.op = "get" /\ ret.status = "ok")
     => /\ HasEntry(ret.ix)
        /\ ret.ix_contrastive \in SetOf(CandidateList(ret.ix))
  /\ (ret.op = "get_batch" /\ ret.status = "ok")
     => /\ Len(ret.data.c_infos) = Len(ret.data.infos)
        /\ \A j \in 1 .. Len(ret.data.infos) :
             /\ HasEntry(ret.data.infos[j].ix)
             /\ ret.data.c_infos[j].ix
                  \in SetOf(CandidateList(ret.data.infos[j].ix))
  /\ (ret.op \in {"get", "get_batch"}
      /\ ret.status \notin {"IndexError", "StopIteration"})
     => LET p == ret.it_before
            k == Min(ret.batch_size, Len(ret.order_before) - p)
            missing == \E j \in 1 .. k : ~HasEntry(ret.order_before[p + j])
        IN /\ missing => /\ ret.status = "KeyError"
                         /\ ret.ix = -1
                         /\ ret.data = NoData
           /\ ~missing => ret.status = "ok"

C19_Witness ==
  /\ contrastive
  /\ max_contrastive = 0
  /\ ret.op = "get_batch"
  /\ ret.status = "ok"
  /\ Len(ret.data.c_infos) = 2
  /\ data_1p[FileOf(ret.data.infos[1].ix)].num_1p = 2
  /\ ret.data.c_infos[1].ix = RankedList(ret.data.infos[1].ix)[2]
  /\ ret.data.c_infos[2].ix = RankedList(ret.data.infos[2].ix)[1]
  /\ \E ix \in Images : ~HasEntry(ix)

\* C20: a fetcher that has a pool, is not inside a get() and has had no
\* failed load holds exactly size - cursor examples not yet handed over;
\* next() raises StopIteration only after a failed load; and the reset() of
\* a wrapping get() replaces a pool that has no example left.
C20_PoolMatchesCursor ==
  /\ \A split \in Splits :
       (/\ prefetch_process[split].has_split_loader
        /\ ~prefetch_process[split].load_failed
        /\ ~(ret.op = "get_call" /\ ret.split = split))
       => Len(prefetch_process[split].split_loader)
            = Len(split_ix[split]) - iterators[split]
  /\ ret.status = "StopIteration"
     => prefetch_process[ret.split].load_failed
  /\ ret.op = "get" => ret.discarded = 0

C20_Witness ==
  /\ ret.op = "get"
  /\ ret.status = "ok"
  /\ ret.wrapped
  /\ ret.discarded = 0
  /\ Len(ret.order_before) = 2
  /\ prefetch_process[ret.split].split_loader = split_ix[ret.split]
  /\ prefetch_process[ret.split].done = {}
  /\ \E other \in Splits \ {ret.split} :
       /\ prefetch_process[other].load_failed
       /\ Len(prefetch_process[other].split_loader) = 0
       /\ Len(split_ix[other]) = 1

====
